---- MODULE Spec2Model ----
(***************************************************************************)
(* Step-definition resolution of pytest-bdd-ng (src/pytest_bdd/steps.py):  *)
(* the registration entry points given/when/then/step, the scoped          *)
(* StepHandler.Registry chain and the per-scenario StepHandler.Matcher.    *)
(***************************************************************************)
EXTENDS Integers, Sequences, FiniteSets, TLC

\* ------------------------------------------------------------------ bounds
\* Registrations made during collection.
MaxDefs == 2
\* Nested registration scopes (1 = innermost test module, higher = broader conftest).
NumScopes == 2
\* Steps of one scenario handled by one Matcher.
MaxSteps == 4
\* Steps of one scenario in the runs that also enumerate the registrations.
MaxStepsCollected == 1
\* Length of a target_fixtures list passed to a decorator.
MaxFixtures == 2
\* Largest value a step argument or a parameter default takes.
MaxValue == 2
\* Steps of each of two scenarios whose Matchers run interleaved.
MaxStepsInterleaved == 2
\* Steps of a scenario whose Matcher is called with arbitrary arguments.
MaxStepsAnyArguments == 2

\* ------------------------------------------------------------------ values
None == "None"

TypeCONTEXT == "CONTEXT"
TypeACTION == "ACTION"
TypeOUTCOME == "OUTCOME"
TypeCONJUNCTION == "CONJUNCTION"
TypeUNKNOWN == "UNKNOWN"
TypeUNSPECIFIED == "UNSPECIFIED"

\* pytest_bdd.const.StepType, as used by steps.py
StepType == {TypeCONTEXT, TypeACTION, TypeOUTCOME, TypeCONJUNCTION, TypeUNKNOWN, TypeUNSPECIFIED}

Scopes == 1..NumScopes
\* no Registry: the value of a Registry's parent attribute before it is wired, and
\* of the step_registry fixture where no scope has registered a step
NoRegistry == 0
Texts == {"foo", "bar"}
Handlers == {"step_func"}
\* the handlers of tests/feature/test_alias.py, each decorated more than once
AliasHandlers == {"foo", "crash"}
AllHandlers == Handlers \cup AliasHandlers
\* Python's True and False next to None: liberal: bool | None
True == "True"
False == "False"
Bool == {True, False}
Tri == {None, True, False}

\* None where a list is expected (target_fixtures: list[str] | None)
NoneList == <<None>>
\* None where a mapping is expected (converters, param_defaults, parse_arguments())
NoneDict == [arg \in {None} |-> 0]
\* None where a collection of handlers is expected (steps=None)
NoneSteps == {None}
\* {}
EmptyDict == [arg \in {} |-> 0]

\* fixture names a step may inject its result into
FixtureNames == {"X", "Y"}
RECURSIVE ListsUpTo(_, _)
ListsUpTo(items, n) ==
    IF n = 0 THEN {<<>>}
    ELSE LET shorter == ListsUpTo(items, n - 1)
         IN shorter \cup {Append(l, i) : l \in {x \in shorter : Len(x) = n - 1}, i \in items}
\* the values of the target_fixture and target_fixtures arguments
TargetFixtureArgs == {None} \cup FixtureNames
TargetFixturesArgs == {NoneList} \cup ListsUpTo(FixtureNames, MaxFixtures)

\* step arguments: names, values, and the converter functions applied to them
ArgNames == {"a", "b"}
Values == 1..MaxValue
Converters == {"negate", "double"}
Convert(converter, value) == IF converter = "negate" THEN 0 - value ELSE 2 * value
\* the dicts with keys among keys and values among values
Dicts(keys, values) == UNION {[K -> values] : K \in SUBSET keys}

VARIABLES
    registry,            \* scope -> set of Definitions (Registry.registry)
    bound,               \* scope -> the Registry whose fixture is "step_registry" in the
                         \* scope's caller_locals, NoRegistry if the name is not there
    parent,              \* scope -> scope of the parent Registry, or NoRegistry (Registry.parent)
    option_liberal_steps,\* config.option.liberal_steps: None, TRUE or FALSE
    ini_liberal_steps,   \* config.getini("liberal_steps")
    phase,               \* "collect" (import time) or "run" (scenario execution)
    step_type_context,   \* Matcher.step_type_context
    step,                \* Matcher.step: [type, text], NoStep before the first call
    history,             \* declared types of the steps this Matcher has handled
    step_definitions,    \* the matches collected by the last call
    returned,            \* the Definition the last call returned, or NoDefinition
    outcome,             \* "none", "returned", "MatchNotFoundError" or "RecursionError"
    feature,             \* Matcher.feature
    pickle,              \* Matcher.pickle
    previous_step,       \* Matcher.previous_step
    resolution,          \* the call of find_step_definition_matches in progress:
                         \* whether one is, the Registry it is at, those it has been at
    other_matcher,       \* a second Matcher instance, of another scenario: its
                         \* step_type_context, step, history, returned and outcome
    warned,              \* the last call raised the alternative-definitions warning
    test_scope,          \* the scope the running scenario's test function lives in
    pytest_bdd_step_definitions, \* handler -> its __pytest_bdd_step_definitions__ set
    caller_locals,       \* scope -> the handlers bound in the scope's namespace
    decorations,         \* number of decorator applications so far
    registered,          \* the last step.from_locals call kept for the record, if
                         \* nothing was decorated since: the calling scope and the
                         \* steps argument
    built,               \* the last decorator_builder call: its fixture arguments, the
                         \* warnings it raised, the Definition it built and the scope
    parsed_arguments,    \* what parser.parse_arguments returned to the last get_parameters
    parameters           \* what get_parameters returned for the current step, NoneDict
                         \* while it has not been called

vars == <<registry, bound, parent, option_liberal_steps, ini_liberal_steps, phase,
          step_type_context, step, history, step_definitions, returned, outcome, warned,
          feature, pickle, previous_step, resolution, other_matcher, test_scope, pytest_bdd_step_definitions, caller_locals, decorations, built,
          registered, parsed_arguments, parameters>>

registryVars == <<registry, bound, parent>>
handlerVars == <<pytest_bdd_step_definitions, caller_locals>>
builderVars == <<decorations, built, registered>>
parametersVars == <<parsed_arguments, parameters>>
configVars == <<option_liberal_steps, ini_liberal_steps>>
matcherVars == <<step_type_context, step, history, step_definitions, returned, outcome, warned,
                 feature, pickle, previous_step, resolution, other_matcher, test_scope>>

\* ------------------------------------------------------------------ parser
\* StepParser.is_matching of the string parser get_parser builds from a str.
is_matching(parser, text) == parser = text

\* ------------------------------------------------------------------ Definition
\* attrs(eq=False): a Definition is compared by object identity. inst tells apart the
\* objects built from the same attribute values.
\* params_fixtures_mapping is handed through to the caller untouched and left out.
Definition(func, type_, parser, converters, param_defaults, target_fixtures, liberal, inst) ==
    [func |-> func, type_ |-> type_, parser |-> parser, converters |-> converters,
     param_defaults |-> param_defaults, target_fixtures |-> target_fixtures,
     liberal |-> liberal, inst |-> inst]

\* stands for "no Definition" where a Definition is expected
NoDefinition == Definition(None, None, None, EmptyDict, EmptyDict, <<>>, None, 0)
\* the Matcher's step attribute before the first call (init=False)
NoStep == [type |-> None, text |-> None]

AllDefinitions == UNION {registry[s] : s \in Scopes}

SameAttributes(d, e) ==
    /\ d.func = e.func
    /\ d.type_ = e.type_
    /\ d.parser = e.parser
    /\ d.converters = e.converters
    /\ d.param_defaults = e.param_defaults
    /\ d.target_fixtures = e.target_fixtures
    /\ d.liberal = e.liberal

\* mutant: Definitions are compared by their attribute values (attrs eq=True)
NewDefinition_ComparedByValue(func, type_, parser, converters, param_defaults, target_fixtures, liberal) ==
    Definition(func, type_, parser, converters, param_defaults, target_fixtures, liberal, 1)

\* a fresh object: no existing Definition is identical to it
NewDefinition(func, type_, parser, converters, param_defaults, target_fixtures, liberal) ==
    LET proto == Definition(func, type_, parser, converters, param_defaults,
                            target_fixtures, liberal, 0)
    IN Definition(func, type_, parser, converters, param_defaults, target_fixtures, liberal,
                  1 + Cardinality({d \in AllDefinitions : SameAttributes(d, proto)}))

\* ------------------------------------------------------------------ Matcher predicates
strict_matcher(step_definition, context, text) ==
    /\ step_definition.type_ = context
    /\ is_matching(step_definition.parser, text)

\* mutant: only the context is compared with UNSPECIFIED, the Definition's type is not
unspecified_matcher_ContextOnly(step_definition, context, text) ==
    /\ context = TypeUNSPECIFIED
    /\ is_matching(step_definition.parser, text)

unspecified_matcher(step_definition, context, text) ==
    /\ (context = TypeUNSPECIFIED \/ step_definition.type_ = TypeUNSPECIFIED)
    /\ is_matching(step_definition.parser, text)

\* mutant: the global configuration is consulted before the Definition's own flag
is_step_definition_liberal_GlobalFirst(liberal, option, ini) ==
    IF option # None THEN option
    ELSE IF liberal # None THEN liberal
    ELSE ini

is_step_definition_liberal(liberal, option, ini) ==
    IF liberal = None
    THEN IF option # None THEN option ELSE ini
    ELSE liberal

\* truth value of a bool | None, as in all((...)) and in "x if liberal else y"
Truthy(value) == value = True

\* mutant: a Definition that satisfies the unspecified matcher is not excluded
liberal_matcher_OverlapsUnspecified(step_definition, context, text) ==
    /\ Truthy(is_step_definition_liberal(step_definition.liberal,
                                          option_liberal_steps, ini_liberal_steps))
    /\ step_definition.type_ # context
    /\ is_matching(step_definition.parser, text)

\* mutant: the type comparison is inverted
liberal_matcher_SameType(step_definition, context, text) ==
    /\ ~unspecified_matcher(step_definition, context, text)
    /\ Truthy(is_step_definition_liberal(step_definition.liberal,
                                          option_liberal_steps, ini_liberal_steps))
    /\ step_definition.type_ = context
    /\ is_matching(step_definition.parser, text)

\* mutant: the liberal flag is not consulted
liberal_matcher_IgnoresFlag(step_definition, context, text) ==
    /\ ~unspecified_matcher(step_definition, context, text)
    /\ step_definition.type_ # context
    /\ is_matching(step_definition.parser, text)

liberal_matcher(step_definition, context, text) ==
    /\ ~unspecified_matcher(step_definition, context, text)
    /\ Truthy(is_step_definition_liberal(step_definition.liberal,
                                          option_liberal_steps, ini_liberal_steps))
    /\ step_definition.type_ # context
    /\ is_matching(step_definition.parser, text)

\* the matches of one tier (1 strict, 2 unspecified, 3 liberal) among the Definitions defs
TierMatches(defs, tier, context, text) ==
    {d \in defs : CASE tier = 1 -> strict_matcher(d, context, text)
                    [] tier = 2 -> unspecified_matcher(d, context, text)
                    [] tier = 3 -> liberal_matcher(d, context, text)
                    [] OTHER -> FALSE}

\* mutant: the matchers are tried in the order strict, liberal, unspecified
FirstTier_LiberalBeforeUnspecified(defs, context, text) ==
    IF TierMatches(defs, 1, context, text) # {} THEN 1
    ELSE IF TierMatches(defs, 3, context, text) # {} THEN 3
    ELSE IF TierMatches(defs, 2, context, text) # {} THEN 2
    ELSE 0

\* for matcher in matchers: ... if found_matches: break
FirstTier(defs, context, text) ==
    IF TierMatches(defs, 1, context, text) # {} THEN 1
    ELSE IF TierMatches(defs, 2, context, text) # {} THEN 2
    ELSE IF TierMatches(defs, 3, context, text) # {} THEN 3
    ELSE 0

\* mutant: the parent Registry is never consulted
find_step_definition_matches_NoParent(reg, context, text) ==
    IF reg = NoRegistry
    THEN {}
    ELSE TierMatches(registry[reg], FirstTier(registry[reg], context, text), context, text)

\* mutant: each tier is tried over the whole chain before the next tier
RECURSIVE DefinitionsUpward(_)
DefinitionsUpward(reg) ==
    IF reg = NoRegistry THEN {} ELSE registry[reg] \cup DefinitionsUpward(parent[reg])

find_step_definition_matches_TierMajor(reg, context, text) ==
    LET defs == DefinitionsUpward(reg)
    IN TierMatches(defs, FirstTier(defs, context, text), context, text)

\* mutant: every Registry is searched, in the chain of the test's scope or not
find_step_definition_matches_AllScopes(reg, context, text) ==
    TierMatches(AllDefinitions, FirstTier(AllDefinitions, context, text), context, text)

\* mutant: the walk over the matchers does not stop at the first tier with matches
RECURSIVE find_step_definition_matches_NoBreak(_, _, _)
find_step_definition_matches_NoBreak(reg, context, text) ==
    IF reg = NoRegistry
    THEN {}
    ELSE LET found == UNION {TierMatches(registry[reg], tier, context, text) : tier \in 1..3}
         IN IF found # {}
            THEN found
            ELSE find_step_definition_matches_NoBreak(parent[reg], context, text)

\* mutant: above the nearest Registry only the strict matcher is tried
RECURSIVE StrictUpward(_, _, _)
StrictUpward(reg, context, text) ==
    IF reg = NoRegistry THEN {}
    ELSE IF TierMatches(registry[reg], 1, context, text) # {}
         THEN TierMatches(registry[reg], 1, context, text)
         ELSE StrictUpward(parent[reg], context, text)

find_step_definition_matches_StrictUpward(reg, context, text) ==
    IF reg = NoRegistry
    THEN {}
    ELSE LET tier == FirstTier(registry[reg], context, text)
         IN IF tier # 0
            THEN TierMatches(registry[reg], tier, context, text)
            ELSE StrictUpward(parent[reg], context, text)

\* if registry: walk the matchers over this Registry; if nothing matched, the parent
RECURSIVE find_step_definition_matches(_, _, _)
find_step_definition_matches(reg, context, text) ==
    IF reg = NoRegistry
    THEN {}
    ELSE LET tier == FirstTier(registry[reg], context, text)
         IN IF tier # 0
            THEN TierMatches(registry[reg], tier, context, text)
            ELSE find_step_definition_matches(parent[reg], context, text)

\* ------------------------------------------------------------------ context propagation
\* mutant: CONJUNCTION is kept as the context
NextContext_NotNormalized(context, type) ==
    IF type \in {TypeCONJUNCTION, TypeUNKNOWN} /\ context # None THEN context ELSE type

\* mutant: the context of the preceding steps is not kept
NextContext_NoInheritance(context, type) ==
    IF type = TypeCONJUNCTION THEN TypeUNKNOWN ELSE type

NextContext(context, type) ==
    LET kept == IF type \in {TypeCONJUNCTION, TypeUNKNOWN} /\ context # None THEN context ELSE type
    IN IF kept = TypeCONJUNCTION THEN TypeUNKNOWN ELSE kept

\* ------------------------------------------------------------------ scopes
\* the nearest scope at or outside s that has a step_registry fixture, or NoRegistry
RECURSIVE NearestBound(_)
NearestBound(s) ==
    IF s > NumScopes THEN NoRegistry
    ELSE IF bound[s] # NoRegistry THEN bound[s]
    ELSE NearestBound(s + 1)

\* the value of the step_registry fixture in the test's scope: the Registry handed to
\* the Matcher
step_registry == NearestBound(test_scope)

\* ------------------------------------------------------------------ Init
\* no call of find_step_definition_matches is in progress
NoResolution == [resolving |-> FALSE, registry |-> NoRegistry, visits |-> <<>>]

\* a Matcher as constructed: step_type_context defaults to None, nothing handled yet
FreshMatcher ==
    [step_type_context |-> None, step |-> NoStep, history |-> <<>>,
     returned |-> NoDefinition, outcome |-> "none"]

\* no decorator_builder call yet
NothingBuilt ==
    [target_fixture |-> None, target_fixtures |-> NoneList, warnings |-> 0,
     step_definition |-> NoDefinition, scope |-> NoRegistry]

\* no bulk registration call yet
NoBulkCall == [op |-> "none", scope |-> NoRegistry, steps |-> NoneSteps]

\* nothing is decorated and get_parameters has not been called
NothingRegistered ==
    /\ pytest_bdd_step_definitions = [f \in AllHandlers |-> {}]
    /\ caller_locals = [s \in Scopes |-> {}]
    /\ decorations = 0
    /\ built = NothingBuilt
    /\ registered = NoBulkCall
    /\ parsed_arguments = NoneDict
    /\ parameters = NoneDict

Init ==
    /\ registry = [s \in Scopes |-> {}]
    /\ bound = [s \in Scopes |-> NoRegistry]
    /\ parent = [s \in Scopes |-> NoRegistry]
    /\ option_liberal_steps \in Tri
    /\ ini_liberal_steps \in Bool
    /\ phase = "collect"
    /\ step_type_context = None
    /\ step = NoStep
    /\ history = <<>>
    /\ step_definitions = {}
    /\ returned = NoDefinition
    /\ outcome = "none"
    /\ warned = FALSE
    /\ feature = None
    /\ pickle = None
    /\ previous_step = NoStep
    /\ other_matcher = FreshMatcher
    /\ resolution = NoResolution
    /\ test_scope = 1
    /\ NothingRegistered

\* ------------------------------------------------------------------ registration
\* mutant: a Registry is built whether or not the namespace has a step_registry
setdefault_step_registry_fixture_AlwaysBuilds(s) == s

\* Registry.setdefault_step_registry_fixture: the Registry bound in the namespace of
\* scope s, a new one (known by the scope it is built in) if the name is not there
setdefault_step_registry_fixture(s) == IF bound[s] = NoRegistry THEN s ELSE bound[s]

\* mutant: the Registry keeps the last Definition only
register_step_definition_Replaces(step_definition, s) ==
    LET r == setdefault_step_registry_fixture(s)
    IN /\ bound' = [bound EXCEPT ![s] = r]
       /\ registry' = [registry EXCEPT ![r] = {step_definition}]
       /\ UNCHANGED parent

\* mutant: the Definition is filed into the Registries of the broader scopes as well
register_step_definition_Upward(step_definition, s) ==
    LET r == setdefault_step_registry_fixture(s)
    IN /\ bound' = [bound EXCEPT ![s] = r]
       /\ registry' = [q \in Scopes |->
                           IF q = r \/ \E b \in Scopes : b > s /\ bound[b] = q
                           THEN registry[q] \cup {step_definition}
                           ELSE registry[q]]
       /\ UNCHANGED parent

\* Registry.register_step_definition: find or create the scope's Registry, add to its set
register_step_definition(step_definition, s) ==
    LET r == setdefault_step_registry_fixture(s)
    IN /\ bound' = [bound EXCEPT ![s] = r]
       /\ registry' = [registry EXCEPT ![r] = @ \cup {step_definition}]
       /\ UNCHANGED parent

\* x or {}
OrEmptyDict(x) == IF x = NoneDict \/ x = EmptyDict THEN EmptyDict ELSE x

Range(items) == {items[i] : i \in DOMAIN items}

\* mutant: of equal items the last occurrence is kept
RECURSIVE OrderedSet_KeepsLast(_)
OrderedSet_KeepsLast(items) ==
    IF items = <<>> THEN <<>>
    ELSE LET rest == OrderedSet_KeepsLast(Tail(items))
         IN IF Head(items) \in Range(rest) THEN rest ELSE <<Head(items)>> \o rest

\* ordered_set.OrderedSet(items), as a list: of equal items the first occurrence is kept
RECURSIVE OrderedSet(_)
OrderedSet(items) ==
    IF items = <<>> THEN <<>>
    ELSE LET front == OrderedSet(SubSeq(items, 1, Len(items) - 1))
             last == items[Len(items)]
         IN IF last \in Range(front) THEN front ELSE Append(front, last)

\* list(OrderedSet([*([target_fixture] if ... else []), *(target_fixtures if ... else [])]))
MergedTargetFixtures(target_fixture, target_fixtures) ==
    OrderedSet((IF target_fixture # None THEN <<target_fixture>> ELSE <<>>)
               \o (IF target_fixtures # NoneList THEN target_fixtures ELSE <<>>))

\* mutant: the warning is raised when either argument is given
BothSpecifiedWarnings_Either(target_fixture, target_fixtures) ==
    IF target_fixture # None \/ target_fixtures # NoneList THEN 1 ELSE 0

\* "Both target_fixture and target_fixtures are specified": warnings raised by one call
BothSpecifiedWarnings(target_fixture, target_fixtures) ==
    IF target_fixture # None /\ target_fixtures # NoneList THEN 1 ELSE 0

\* StepHandler.decorator_builder, then the decorator applied to step_func in scope s:
\* one Definition is built, noted on the handler and filed into the Registry of the
\* caller's scope; the handler itself is returned and stays bound in that scope
decorator_builder(step_type, step_parserlike, converters, target_fixture, target_fixtures, param_defaults, liberal, step_func, s) ==
    LET step_definition == NewDefinition(step_func, step_type, step_parserlike,
                                         OrEmptyDict(converters), OrEmptyDict(param_defaults),
                                         MergedTargetFixtures(target_fixture, target_fixtures),
                                         liberal)
    IN /\ phase = "collect"
       /\ decorations < MaxDefs
       /\ decorations' = decorations + 1
       /\ registered' = NoBulkCall
       /\ built' = [target_fixture |-> target_fixture, target_fixtures |-> target_fixtures,
                    warnings |-> BothSpecifiedWarnings(target_fixture, target_fixtures),
                    step_definition |-> step_definition, scope |-> s]
       /\ pytest_bdd_step_definitions' =
              [pytest_bdd_step_definitions EXCEPT ![step_func] = @ \cup {step_definition}]
       /\ caller_locals' = [caller_locals EXCEPT ![s] = @ \cup {step_func}]
       /\ register_step_definition(step_definition, s)

\* StepType.UNSPECIFIED if liberal else StepType.UNKNOWN: None and False are both falsy
StepDecoratorType(liberal) == IF Truthy(liberal) THEN TypeUNSPECIFIED ELSE TypeUNKNOWN

\* @given(parserlike, liberal=...) on step_func in scope s
given ==
    \E parserlike \in Texts, liberal \in Tri, step_func \in Handlers, s \in Scopes :
        /\ decorator_builder(TypeCONTEXT, parserlike, NoneDict, None, NoneList, NoneDict, liberal, step_func, s)
        /\ UNCHANGED <<configVars, phase, matcherVars, parametersVars>>

\* @when(parserlike, liberal=...)
when ==
    \E parserlike \in Texts, liberal \in Tri, step_func \in Handlers, s \in Scopes :
        /\ decorator_builder(TypeACTION, parserlike, NoneDict, None, NoneList, NoneDict, liberal, step_func, s)
        /\ UNCHANGED <<configVars, phase, matcherVars, parametersVars>>

\* @then(parserlike, liberal=...)
then ==
    \E parserlike \in Texts, liberal \in Tri, step_func \in Handlers, s \in Scopes :
        /\ decorator_builder(TypeOUTCOME, parserlike, NoneDict, None, NoneList, NoneDict, liberal, step_func, s)
        /\ UNCHANGED <<configVars, phase, matcherVars, parametersVars>>

\* @step(parserlike, liberal=...)
stepDecorator ==
    \E parserlike \in Texts, liberal \in Tri, step_func \in Handlers, s \in Scopes :
        /\ decorator_builder(StepDecoratorType(liberal), parserlike, NoneDict, None, NoneList, NoneDict, liberal, step_func, s)
        /\ UNCHANGED <<configVars, phase, matcherVars, parametersVars>>

\* @given(parserlike, target_fixture=..., target_fixtures=...)
givenTargetFixtures ==
    \E target_fixture \in TargetFixtureArgs, target_fixtures \in TargetFixturesArgs, parserlike \in Texts, step_func \in Handlers, s \in Scopes :
        /\ decorator_builder(TypeCONTEXT, parserlike, NoneDict, target_fixture, target_fixtures, NoneDict, None, step_func, s)
        /\ UNCHANGED <<configVars, phase, matcherVars, parametersVars>>

\* @given / @when / @then stacked on the handlers of tests/feature/test_alias.py
aliasDecorator ==
    \E step_type \in {TypeCONTEXT, TypeACTION, TypeOUTCOME}, parserlike \in Texts, step_func \in AliasHandlers, s \in Scopes :
        /\ decorator_builder(step_type, parserlike, NoneDict, None, NoneList, NoneDict, None, step_func, s)
        /\ UNCHANGED <<configVars, phase, matcherVars, parametersVars>>

\* ------------------------------------------------------------------ bulk registration
\* mutant: the Definitions are moved: registering them in scope s takes them out of
\* the other Registries
register_steps_Moves(step_funcs, s) ==
    LET step_definitions_ == UNION {pytest_bdd_step_definitions[f] : f \in step_funcs}
    IN IF step_definitions_ = {}
       THEN UNCHANGED registryVars
       ELSE /\ bound' = [bound EXCEPT ![s] = setdefault_step_registry_fixture(s)]
            /\ registry' = [r \in Scopes |->
                                IF r = setdefault_step_registry_fixture(s)
                                THEN registry[r] \cup step_definitions_
                                ELSE registry[r] \ step_definitions_]
            /\ UNCHANGED parent

\* mutant: a Definition the Registry already holds is stored once more, as another
\* object
register_steps_Copies(step_funcs, s) ==
    LET step_definitions_ == UNION {pytest_bdd_step_definitions[f] : f \in step_funcs}
        r == setdefault_step_registry_fixture(s)
    IN IF step_definitions_ = {}
       THEN UNCHANGED registryVars
       ELSE /\ bound' = [bound EXCEPT ![s] = r]
            /\ registry' = [registry EXCEPT ![r] =
                                @ \cup step_definitions_
                                  \cup {[d EXCEPT !.inst = @ + MaxDefs + 1] :
                                            d \in step_definitions_ \cap registry[r]}]
            /\ UNCHANGED parent

\* Registry.register_steps(*step_funcs, caller_locals): every Definition noted on each
\* handler is filed into the Registry of scope s
register_steps(step_funcs, s) ==
    LET step_definitions_ == UNION {pytest_bdd_step_definitions[f] : f \in step_funcs}
    IN IF step_definitions_ = {}
       THEN UNCHANGED registryVars
       ELSE /\ bound' = [bound EXCEPT ![s] = setdefault_step_registry_fixture(s)]
            /\ registry' = [registry EXCEPT ![setdefault_step_registry_fixture(s)] =
                                                @ \cup step_definitions_]
            /\ UNCHANGED parent

\* mutant: steps=None selects nothing
Selected_NoneSelectsNothing(step_func, steps) == steps # NoneSteps /\ step_func \in steps

\* steps is None or name in steps or obj in steps
Selected(step_func, steps) == steps = NoneSteps \/ step_func \in steps

\* step.from_locals(steps=...) called in scope s
register_steps_from_locals ==
    \E s \in Scopes, steps \in {NoneSteps} \cup SUBSET AllHandlers :
        /\ phase = "collect"
        /\ register_steps({f \in caller_locals[s] : Selected(f, steps)}, s)
        /\ UNCHANGED <<configVars, phase, matcherVars, handlerVars, builderVars, parametersVars>>

\* step.from_locals(steps=...) called in scope s, the call kept for the record
recorded_register_steps_from_locals ==
    \E s \in Scopes, steps \in {NoneSteps} \cup SUBSET AllHandlers :
        /\ phase = "collect"
        /\ register_steps({f \in caller_locals[s] : Selected(f, steps)}, s)
        /\ registered' = [op |-> "from_locals", scope |-> s, steps |-> steps]
        /\ UNCHANGED <<configVars, phase, matcherVars, handlerVars, decorations, built, parametersVars>>

\* step.from_module(module, steps=...) called in scope s: the handlers bound in the
\* module's namespace and those of the Definitions in the module's Registry. The module
\* has a step_registry: without one there is no Registry to iterate over.
register_steps_from_module ==
    \E module \in Scopes, s \in Scopes, steps \in {NoneSteps} \cup SUBSET AllHandlers :
        /\ phase = "collect"
        /\ bound[module] # NoRegistry
        /\ register_steps({f \in caller_locals[module] : Selected(f, steps)}
                          \cup {d.func : d \in {e \in registry[bound[module]] :
                                                     Selected(e.func, steps)}}, s)
        /\ UNCHANGED <<configVars, phase, matcherVars, handlerVars, builderVars, parametersVars>>

\* "from module import step_registry" (or import *) in the namespace of scope s: the
\* name is bound to the fixture of the module's Registry
import_step_registry ==
    \E module \in Scopes, s \in Scopes :
        /\ phase = "collect"
        /\ module # s
        /\ bound[module] # NoRegistry
        /\ bound' = [bound EXCEPT ![s] = bound[module]]
        /\ UNCHANGED <<registry, parent, configVars, phase, matcherVars, handlerVars,
                       builderVars, parametersVars>>

\* ------------------------------------------------------------------ scenario execution
\* the step_registry fixtures visible from scope t are resolved from the broadest scope
\* s inwards; each resolution assigns the Registry's parent: self.parent = step_registry
\* mutant: the fixtures of the scopes narrower than the test's are resolved as well
RECURSIVE Wired_EveryScope(_, _, _)
Wired_EveryScope(s, t, links) ==
    IF s < 1 THEN links
    ELSE Wired_EveryScope(s - 1, t, IF bound[s] # NoRegistry
                                    THEN [links EXCEPT ![bound[s]] = NearestBound(s + 1)]
                                    ELSE links)

RECURSIVE Wired(_, _, _)
Wired(s, t, links) ==
    IF s < t THEN links
    ELSE Wired(s - 1, t, IF bound[s] # NoRegistry
                         THEN [links EXCEPT ![bound[s]] = NearestBound(s + 1)]
                         ELSE links)

\* A scenario starts: the step_registry fixtures of the scopes are resolved, each
\* Registry being wired to the Registry of the next broader scope, and a fresh Matcher
\* is built (step_type_context defaults to None).
WireParents(t) == parent' = Wired(NumScopes, t, parent)

\* the scenario of a test function living in scope t starts
SetupScenario(t) ==
    /\ ~resolution.resolving
    /\ WireParents(t)
    /\ phase' = "run"
    /\ step_type_context' = None
    /\ step' = NoStep
    /\ history' = <<>>
    /\ step_definitions' = {}
    /\ returned' = NoDefinition
    /\ outcome' = "none"
    /\ warned' = FALSE
    /\ feature' = None
    /\ pickle' = None
    /\ previous_step' = NoStep
    /\ built' = NothingBuilt
    /\ registered' = NoBulkCall
    /\ UNCHANGED <<registry, bound, configVars, handlerVars, decorations, parametersVars,
                   resolution, other_matcher>>

\* a scenario of the innermost scope starts
StartScenario ==
    /\ test_scope' = 1
    /\ SetupScenario(1)

\* a scenario starts in any scope: a test of a broader scope does not see the
\* step_registry fixtures of the narrower ones
StartScenarioIn ==
    \E t \in Scopes :
        /\ test_scope' = t
        /\ SetupScenario(t)

\* mutant: the warning is raised for every match
AlternativesFound_Any(found) == Cardinality(found) > 0

\* if len(step_definitions) > 1: warn(... "Alternative step definitions are found" ...)
AlternativesFound(found) == Cardinality(found) > 1

\* the Registries reached from r over the parent links
RECURSIVE ChainVia(_, _)
ChainVia(r, seen) ==
    IF r = NoRegistry \/ r \in seen THEN seen ELSE ChainVia(parent[r], seen \cup {r})

\* the parent links from reg never come to an end, and no Registry on the way holds a
\* match of any tier: find_step_definition_matches calls itself until the interpreter's
\* recursion limit is hit
RecursesForever(reg, context, text) ==
    /\ reg # NoRegistry
    /\ \A r \in ChainVia(reg, {}) : parent[r] # NoRegistry
    /\ \A r \in ChainVia(reg, {}) : FirstTier(registry[r], context, text) = 0

\* mutant: the context goes back to what it was when no match is found
Matcher__call___RollsBack(feature_, pickle_, type, text, previous_step_) ==
    /\ phase = "run"
    /\ feature' = feature_
    /\ pickle' = pickle_
    /\ step' = [type |-> type, text |-> text]
    /\ previous_step' = previous_step_
    /\ history' = Append(history, type)
    /\ LET context == NextContext(step_type_context, type)
       IN /\ step_type_context' =
                 IF ~RecursesForever(step_registry, context, text)
                    /\ find_step_definition_matches(step_registry, context, text) = {}
                 THEN step_type_context
                 ELSE context
          /\ IF RecursesForever(step_registry, context, text)
             THEN /\ step_definitions' = {}
                  /\ warned' = FALSE
                  /\ outcome' = "RecursionError"
                  /\ returned' = NoDefinition
             ELSE LET found == find_step_definition_matches(step_registry, context, text)
                  IN /\ step_definitions' = found
                     /\ warned' = AlternativesFound(found)
                     /\ IF found # {}
                        THEN /\ outcome' = "returned"
                             \* step_definitions[0]: the set's iteration order decides
                             /\ returned' \in found
                        ELSE /\ outcome' = "MatchNotFoundError"
                             /\ returned' = NoDefinition
    \* the parameters of the previous step are gone
    /\ parsed_arguments' = NoneDict
    /\ parameters' = NoneDict
    /\ UNCHANGED <<registryVars, configVars, phase, test_scope, handlerVars, builderVars,
                   resolution, other_matcher>>

\* mutant: the context is inherited from the previous_step argument
Matcher__call___InheritsFromPreviousStep(feature_, pickle_, type, text, previous_step_) ==
    /\ phase = "run"
    /\ feature' = feature_
    /\ pickle' = pickle_
    /\ step' = [type |-> type, text |-> text]
    /\ previous_step' = previous_step_
    /\ history' = Append(history, type)
    /\ LET context == NextContext(IF previous_step_ = NoStep THEN None ELSE previous_step_.type, type)
       IN /\ step_type_context' = context
          /\ IF RecursesForever(step_registry, context, text)
             THEN /\ step_definitions' = {}
                  /\ warned' = FALSE
                  /\ outcome' = "RecursionError"
                  /\ returned' = NoDefinition
             ELSE LET found == find_step_definition_matches(step_registry, context, text)
                  IN /\ step_definitions' = found
                     /\ warned' = AlternativesFound(found)
                     /\ IF found # {}
                        THEN /\ outcome' = "returned"
                             \* step_definitions[0]: the set's iteration order decides
                             /\ returned' \in found
                        ELSE /\ outcome' = "MatchNotFoundError"
                             /\ returned' = NoDefinition
    \* the parameters of the previous step are gone
    /\ parsed_arguments' = NoneDict
    /\ parameters' = NoneDict
    /\ UNCHANGED <<registryVars, configVars, phase, test_scope, handlerVars, builderVars,
                   resolution, other_matcher>>

\* Matcher.__call__(feature, pickle, step, previous_step, step_registry); step_registry
\* is the value of the step_registry fixture of the test's scope
Matcher__call__(feature_, pickle_, type, text, previous_step_) ==
    /\ phase = "run"
    /\ feature' = feature_
    /\ pickle' = pickle_
    /\ step' = [type |-> type, text |-> text]
    /\ previous_step' = previous_step_
    /\ history' = Append(history, type)
    /\ LET context == NextContext(step_type_context, type)
       IN /\ step_type_context' = context
          /\ IF RecursesForever(step_registry, context, text)
             THEN /\ step_definitions' = {}
                  /\ warned' = FALSE
                  /\ outcome' = "RecursionError"
                  /\ returned' = NoDefinition
             ELSE LET found == find_step_definition_matches(step_registry, context, text)
                  IN /\ step_definitions' = found
                     /\ warned' = AlternativesFound(found)
                     /\ IF found # {}
                        THEN /\ outcome' = "returned"
                             \* step_definitions[0]: the set's iteration order decides
                             /\ returned' \in found
                        ELSE /\ outcome' = "MatchNotFoundError"
                             /\ returned' = NoDefinition
    \* the parameters of the previous step are gone
    /\ parsed_arguments' = NoneDict
    /\ parameters' = NoneDict
    /\ UNCHANGED <<registryVars, configVars, phase, test_scope, handlerVars, builderVars,
                   resolution, other_matcher>>

\* mutant: the recursive call is made with the same Registry
NextRegistry_Same(r) == r

\* find_step_definition_matches(registry.parent, matchers): the Registry of the next call
NextRegistry(r) == parent[r]

\* Matcher.__call__ up to the call of find_step_definition_matches: the arguments are
\* stored, the context is updated, the lookup is entered at step_registry
BeginResolution ==
    \E type \in StepType, text \in Texts :
        /\ phase = "run"
        /\ ~resolution.resolving
        /\ Len(history) < MaxStepsCollected
        /\ feature' = "feature"
        /\ pickle' = "scenario"
        /\ step' = [type |-> type, text |-> text]
        /\ previous_step' = step
        /\ history' = Append(history, type)
        /\ step_type_context' = NextContext(step_type_context, type)
        /\ step_definitions' = {}
        /\ warned' = FALSE
        /\ outcome' = "none"
        /\ returned' = NoDefinition
        /\ resolution' = [resolving |-> TRUE, registry |-> step_registry, visits |-> <<>>]
        /\ parsed_arguments' = NoneDict
        /\ parameters' = NoneDict
        /\ UNCHANGED <<registryVars, configVars, phase, test_scope, handlerVars, builderVars,
                       other_matcher>>

\* one call of find_step_definition_matches on a Registry: the matchers are walked over
\* its Definitions; with matches the lookup ends and __call__ returns the first of
\* them, without any the function calls itself on the Registry's parent
VisitRegistry ==
    /\ resolution.resolving
    /\ resolution.registry # NoRegistry
    /\ LET r == resolution.registry
           tier == FirstTier(registry[r], step_type_context, step.text)
           found == TierMatches(registry[r], tier, step_type_context, step.text)
       IN IF tier # 0
          THEN /\ step_definitions' = found
               /\ warned' = AlternativesFound(found)
               /\ outcome' = "returned"
               /\ returned' \in found
               /\ resolution' = [resolving |-> FALSE, registry |-> r,
                                 visits |-> Append(resolution.visits, r)]
          ELSE /\ resolution' = [resolving |-> TRUE, registry |-> NextRegistry(r),
                                 visits |-> Append(resolution.visits, r)]
               /\ UNCHANGED <<step_definitions, warned, outcome, returned>>
    /\ UNCHANGED <<registryVars, configVars, phase, test_scope, handlerVars, builderVars,
                   parametersVars, step_type_context, step, history, feature, pickle,
                   previous_step, other_matcher>>

\* the call on the parent of the root: `if registry:` is false for None and the
\* AttributeError of None.parent is suppressed; the list of matches is empty and
\* __call__ raises MatchNotFoundError
EndOfChain ==
    /\ resolution.resolving
    /\ resolution.registry = NoRegistry
    /\ outcome' = "MatchNotFoundError"
    /\ resolution' = [resolution EXCEPT !.resolving = FALSE]
    /\ UNCHANGED <<registryVars, configVars, phase, test_scope, handlerVars, builderVars,
                   parametersVars, step_type_context, step, history, step_definitions,
                   warned, returned, feature, pickle, previous_step, other_matcher>>

\* mutant: step_type_context is shared by the Matcher instances
OtherMatcherContext_Shared == step_type_context

\* self.step_type_context of the second Matcher
OtherMatcherContext == other_matcher.step_type_context

\* Matcher.__call__ on the second Matcher instance, with the same step_registry
OtherMatcher__call__(type, text) ==
    /\ phase = "run"
    /\ LET context == NextContext(OtherMatcherContext, type)
           handled == [other_matcher EXCEPT !.step_type_context = context,
                                            !.step = [type |-> type, text |-> text],
                                            !.history = Append(@, type)]
       IN IF RecursesForever(step_registry, context, text)
          THEN other_matcher' = [handled EXCEPT !.outcome = "RecursionError",
                                                !.returned = NoDefinition]
          ELSE LET found == find_step_definition_matches(step_registry, context, text)
               IN IF found # {}
                  THEN \E step_definition \in found :
                           other_matcher' = [handled EXCEPT !.outcome = "returned",
                                                            !.returned = step_definition]
                  ELSE other_matcher' = [handled EXCEPT !.outcome = "MatchNotFoundError",
                                                        !.returned = NoDefinition]
    /\ UNCHANGED <<registryVars, configVars, phase, test_scope, handlerVars, builderVars,
                   parametersVars, step_type_context, step, history, step_definitions,
                   returned, outcome, warned, feature, pickle, previous_step, resolution>>

\* the scenario of the second Matcher starts in the same scope: its fixtures are
\* resolved and its Matcher is built
StartOtherScenario ==
    /\ phase = "run"
    /\ WireParents(test_scope)
    /\ other_matcher' = FreshMatcher
    /\ UNCHANGED <<registry, bound, configVars, phase, test_scope, handlerVars, builderVars,
                   parametersVars, step_type_context, step, history, step_definitions,
                   returned, outcome, warned, feature, pickle, previous_step, resolution>>

\* a step of the first scenario while the two scenarios run interleaved
FirstMatcherStep ==
    \E type \in StepType, text \in Texts :
        /\ Len(history) < MaxStepsInterleaved
        /\ Matcher__call__("feature", "scenario", type, text, step)

\* a step of the second scenario while the two scenarios run interleaved
OtherMatcherStep ==
    \E type \in StepType, text \in Texts :
        /\ Len(other_matcher.history) < MaxStepsInterleaved
        /\ OtherMatcher__call__(type, text)

\* a step of a scenario, in the runs that enumerate the registrations
CallStep ==
    \E type \in StepType, text \in Texts :
        /\ Len(history) < MaxStepsCollected
        /\ Matcher__call__("feature", "scenario", type, text, step)

\* a step of a scenario of up to MaxSteps steps
ScenarioStep ==
    \E type \in StepType, text \in Texts :
        /\ Len(history) < MaxSteps
        /\ Matcher__call__("feature", "scenario", type, text, step)

\* the values a caller may pass for feature, pickle and previous_step
Features == {"feature", "other feature"}
Pickles == {"scenario", "other scenario"}
PreviousSteps == {NoStep} \cup [type : StepType, text : {"bar"}]

\* a step of a scenario, the Matcher called with any feature, pickle and previous_step
AnyArgumentsStep ==
    \E type \in StepType, text \in Texts, feature_ \in Features, pickle_ \in Pickles, previous_step_ \in PreviousSteps :
        /\ Len(history) < MaxStepsAnyArguments
        /\ Matcher__call__(feature_, pickle_, type, text, previous_step_)

\* ------------------------------------------------------------------ arguments
\* mutant: the defaults take precedence over the parsed arguments
get_parameters_DefaultsWin(step_definition, parsed) ==
    LET args == OrEmptyDict(parsed)
        converters == step_definition.converters
        converted == [arg \in DOMAIN args |->
                         IF arg \in DOMAIN converters
                         THEN Convert(converters[arg], args[arg])
                         ELSE args[arg]]
    IN [arg \in DOMAIN step_definition.param_defaults \cup DOMAIN converted |->
           IF arg \in DOMAIN step_definition.param_defaults
           THEN step_definition.param_defaults[arg]
           ELSE converted[arg]]

\* Definition.get_parameters(step); parsed is what self.parser.parse_arguments returns
get_parameters(step_definition, parsed) ==
    LET args == OrEmptyDict(parsed)
        converters == step_definition.converters
        converted == [arg \in DOMAIN args |->
                         IF arg \in DOMAIN converters
                         THEN Convert(converters[arg], args[arg])
                         ELSE args[arg]]
    IN [arg \in DOMAIN step_definition.param_defaults \cup DOMAIN converted |->
           IF arg \in DOMAIN converted
           THEN converted[arg]
           ELSE step_definition.param_defaults[arg]]

\* the caller of the Matcher asks the returned Definition for the step's parameters
GetParameters ==
    \E parsed \in {NoneDict} \cup Dicts(ArgNames, Values) :
        /\ phase = "run"
        /\ outcome = "returned"
        /\ parsed_arguments' = parsed
        /\ parameters' = get_parameters(returned, parsed)
        /\ UNCHANGED <<registryVars, configVars, phase, matcherVars, handlerVars, builderVars>>

Next ==
    \/ given \/ when \/ then \/ stepDecorator
    \/ register_steps_from_locals \/ register_steps_from_module
    \/ StartScenario \/ CallStep

Spec == Init /\ [][Next]_vars

\* ------------------------------------------------------------------ registration runs
\* Stacked decorators and bulk registration over two handlers, then one step of a
\* scenario started in any scope.
NextRegistration ==
    \/ aliasDecorator
    \/ register_steps_from_locals \/ register_steps_from_module
    \/ StartScenarioIn \/ CallStep

SpecRegistration == Init /\ [][NextRegistration]_vars

\* ------------------------------------------------------------------ fixture arguments
\* Registrations through given with every combination of target_fixture and
\* target_fixtures, then one step of a scenario.
NextBuilder == givenTargetFixtures \/ StartScenario \/ CallStep

SpecBuilder == Init /\ [][NextBuilder]_vars

\* ------------------------------------------------------------------ parameter runs
\* One collected @when("foo", converters=..., param_defaults=...) step, every choice of
\* converters and defaults over ArgNames; its parameters are taken after it resolves.
InitParameters ==
    \E converters \in Dicts(ArgNames, Converters), param_defaults \in Dicts(ArgNames, Values) :
        LET step_definition == Definition("step_func", TypeACTION, "foo", converters,
                                          param_defaults, <<>>, None, 1)
        IN /\ registry = [s \in Scopes |-> IF s = 1 THEN {step_definition} ELSE {}]
           /\ pytest_bdd_step_definitions =
                  [f \in AllHandlers |-> IF f = "step_func" THEN {step_definition} ELSE {}]
           /\ caller_locals = [s \in Scopes |-> IF s = 1 THEN {"step_func"} ELSE {}]
           /\ decorations = 1
           /\ built = NothingBuilt
           /\ registered = NoBulkCall
           /\ parsed_arguments = NoneDict
           /\ parameters = NoneDict
           /\ bound = [s \in Scopes |-> IF s = 1 THEN 1 ELSE NoRegistry]
           /\ parent = [s \in Scopes |-> NoRegistry]
           /\ option_liberal_steps = None
           /\ ini_liberal_steps = False
           /\ phase = "run"
           /\ step_type_context = None
           /\ step = NoStep
           /\ history = <<>>
           /\ step_definitions = {}
           /\ returned = NoDefinition
           /\ outcome = "none"
           /\ warned = FALSE
           /\ feature = None
           /\ pickle = None
           /\ previous_step = NoStep
           /\ other_matcher = FreshMatcher
           /\ resolution = NoResolution
           /\ test_scope = 1

NextParameters == StartScenario \/ CallStep \/ GetParameters

SpecParameters == InitParameters /\ [][NextParameters]_vars

\* ------------------------------------------------------------------ scenarios
\* Whole scenarios over the step definitions of one collected test module
\* (tests/feature/test_no_sctrict_gherkin.py registers only @when steps).
CollectedModule == {Definition("step_func", TypeACTION, "foo", EmptyDict, EmptyDict, <<>>, None, 1)}

InitScenario ==
    /\ registry = [s \in Scopes |-> IF s = 1 THEN CollectedModule ELSE {}]
    /\ pytest_bdd_step_definitions = [f \in AllHandlers |-> {d \in CollectedModule : d.func = f}]
    /\ caller_locals = [s \in Scopes |-> IF s = 1 THEN {d.func : d \in CollectedModule} ELSE {}]
    /\ decorations = Cardinality(CollectedModule)
    /\ built = NothingBuilt
    /\ registered = NoBulkCall
    /\ parsed_arguments = NoneDict
    /\ parameters = NoneDict
    /\ bound = [s \in Scopes |-> IF s = 1 THEN 1 ELSE NoRegistry]
    /\ parent = [s \in Scopes |-> NoRegistry]
    /\ option_liberal_steps \in Tri
    /\ ini_liberal_steps \in Bool
    /\ phase = "run"
    /\ step_type_context = None
    /\ step = NoStep
    /\ history = <<>>
    /\ step_definitions = {}
    /\ returned = NoDefinition
    /\ outcome = "none"
    /\ warned = FALSE
    /\ feature = None
    /\ pickle = None
    /\ previous_step = NoStep
    /\ other_matcher = FreshMatcher
    /\ resolution = NoResolution
    /\ test_scope = 1

NextScenario == StartScenario \/ ScenarioStep

SpecScenario == InitScenario /\ [][NextScenario]_vars

\* ------------------------------------------------------------------ any arguments
\* Scenarios over the collected module, the Matcher called with every combination of
\* feature, pickle and previous_step.
NextArguments == StartScenario \/ AnyArgumentsStep

SpecArguments == InitScenario /\ [][NextArguments]_vars

\* ------------------------------------------------------------------ two scenarios
\* Two scenarios of the collected module, each with its own Matcher, their steps
\* interleaved in every order.
NextIsolation == StartScenario \/ StartOtherScenario \/ FirstMatcherStep \/ OtherMatcherStep

SpecIsolation == InitScenario /\ [][NextIsolation]_vars

\* ------------------------------------------------------------------ the lookup, call by call
\* Registrations, scenarios started in any scope, and each Matcher invocation taken
\* one call of find_step_definition_matches at a time. A call that has been entered
\* runs on: the interpreter does not stop inside the lookup.
NextWalk == given \/ StartScenarioIn \/ BeginResolution \/ VisitRegistry \/ EndOfChain

SpecWalk ==
    /\ Init
    /\ [][NextWalk]_vars
    /\ WF_vars(VisitRegistry)
    /\ WF_vars(EndOfChain)

\* ------------------------------------------------------------------ bulk registration
\* Decorations in any scope and step.from_locals calls with every steps argument, each
\* call kept for the record.
NextBulk == aliasDecorator \/ recorded_register_steps_from_locals

SpecBulk == Init /\ [][NextBulk]_vars

\* ------------------------------------------------------------------ shared Registries
\* Registrations, namespaces that import the step_registry of another one, scenarios
\* started in any scope.
NextLifecycle == aliasDecorator \/ import_step_registry \/ StartScenarioIn \/ CallStep

SpecLifecycle == Init /\ [][NextLifecycle]_vars

\* ------------------------------------------------------------------ reading the state
\* the Registries of the chain that starts at r, following the parent links
ChainFrom(r) == ChainVia(r, {})

Chain == ChainFrom(step_registry)
ChainDefinitions == UNION {registry[r] : r \in Chain}

\* the Registries of the chain that are strictly nearer than r
NearerThan(r) == {n \in Chain : r \in ChainFrom(parent[n])}

\* the Matcher has handled a step
Called == outcome # "none"

Matches(d) == is_matching(d.parser, step.text)
Strict(d) == strict_matcher(d, step_type_context, step.text)
Unspecified(d) == unspecified_matcher(d, step_type_context, step.text)
Liberal(d) == liberal_matcher(d, step_type_context, step.text)
AnyTier(d) == Strict(d) \/ Unspecified(d) \/ Liberal(d)

\* no Registry nearer than r holds a match of any tier for the current step
NothingNearer(r) == \A n \in NearerThan(r) : \A d \in registry[n] : ~AnyTier(d)

\* ------------------------------------------------------------------ C1
RECURSIVE LastExplicit(_)
LastExplicit(h) ==
    IF h = <<>> THEN TypeUNKNOWN
    ELSE IF h[Len(h)] \notin {TypeCONJUNCTION, TypeUNKNOWN} THEN h[Len(h)]
    ELSE LastExplicit(SubSeq(h, 1, Len(h) - 1))

\* C1: after a Matcher has handled any sequence of steps, its active context is the
\* declared category of the most recent step that is neither CONJUNCTION nor UNKNOWN,
\* and UNKNOWN when there is no such step.
C1_ContextPropagation ==
    history # <<>> => step_type_context = LastExplicit(history)

\* Given A, And B, Then C, And D: D has been resolved under OUTCOME
C1_Witness ==
    /\ history = <<TypeCONTEXT, TypeCONJUNCTION, TypeOUTCOME, TypeCONJUNCTION>>
    /\ step_type_context = TypeOUTCOME

\* ------------------------------------------------------------------ C2
\* C2: in the Registry that holds the returned Definition, the candidate set is the
\* full match set of the first non-empty tier, strict before unspecified before liberal.
C2_TierPriority ==
    outcome = "returned" =>
        \E r \in Chain :
            /\ returned \in registry[r]
            /\ LET strict == {d \in registry[r] : Strict(d)}
                   unspecified == {d \in registry[r] : Unspecified(d)}
                   liberal == {d \in registry[r] : Liberal(d)}
               IN /\ strict # {} => step_definitions = strict
                  /\ strict = {} /\ unspecified # {} => step_definitions = unspecified
                  /\ strict = {} /\ unspecified = {} => step_definitions = liberal
                  /\ returned \in step_definitions

\* scenario 2: an UNSPECIFIED Definition is returned under context CONTEXT while the
\* same Registry holds a liberal ACTION Definition that matches the text
C2_Witness ==
    /\ outcome = "returned"
    /\ step_type_context = TypeCONTEXT
    /\ returned.type_ = TypeUNSPECIFIED
    /\ \E r \in Chain :
           /\ returned \in registry[r]
           /\ \E d \in registry[r] :
                  /\ d.type_ = TypeACTION
                  /\ d.liberal = True
                  /\ Matches(d)
                  /\ d \notin step_definitions

\* ------------------------------------------------------------------ C3
\* C3: if a Registry R of the chain holds a match of any tier for the current step, the
\* returned Definition is not one held only in R's ancestors; it is held in R when R is
\* the Registry the resolution started at.
C3_ScopePrecedence ==
    Called =>
        \A r \in Chain :
            (\E d \in registry[r] : AnyTier(d)) =>
                /\ outcome = "returned"
                /\ returned \in UNION {registry[n] : n \in NearerThan(r) \cup {r}}
                /\ r = step_registry => returned \in registry[r]

\* a liberal match of the nearest Registry is returned although its parent holds a
\* strict match
C3_Witness ==
    /\ outcome = "returned"
    /\ returned \in registry[step_registry]
    /\ Liberal(returned)
    /\ parent[step_registry] # NoRegistry
    /\ \E d \in registry[parent[step_registry]] : Strict(d)

\* ------------------------------------------------------------------ C4
\* C4: a call raises MatchNotFoundError exactly when no Definition of any Registry of
\* the chain, the root included, satisfies a tier for the current step.
C4_NotFoundIffNoMatch ==
    Called =>
        /\ outcome = "MatchNotFoundError" <=> \A d \in ChainDefinitions : ~AnyTier(d)
        /\ outcome = "returned" => returned \in ChainDefinitions /\ AnyTier(returned)

\* a match held only by the root Registry is returned after the nearer one gave nothing
C4_Witness ==
    /\ outcome = "returned"
    /\ step_registry # NoRegistry
    /\ parent[step_registry] # NoRegistry
    /\ parent[parent[step_registry]] = NoRegistry
    /\ returned \in registry[parent[step_registry]]
    /\ registry[step_registry] # {}

\* ------------------------------------------------------------------ C5
\* the Definition is effectively liberal under the configuration in force
EffectivelyLiberal(d) ==
    Truthy(is_step_definition_liberal(d.liberal, option_liberal_steps, ini_liberal_steps))

LiberalAction(d) == d.type_ = TypeACTION /\ EffectivelyLiberal(d) /\ Matches(d)
UnspecifiedMatch(d) == d.type_ = TypeUNSPECIFIED /\ Matches(d)

\* C5 as stated: under context CONTEXT, whenever a liberal ACTION Definition and an
\* UNSPECIFIED Definition of the chain both match the text, the UNSPECIFIED one is
\* returned, wherever in the chain each is held.
C5_UnspecifiedAlwaysWins ==
    Called /\ step_type_context = TypeCONTEXT =>
        \A l, u \in ChainDefinitions :
            LiberalAction(l) /\ UnspecifiedMatch(u) => outcome = "returned" /\ returned = u

\* C5 amended: when the UNSPECIFIED Definition is held in a Registry that is the same
\* as or nearer than every Registry holding the liberal one, the liberal one is never
\* returned; the UNSPECIFIED one is returned when no nearer Registry holds a match and
\* its own Registry holds no strict match and no other UNSPECIFIED match.
C5_UnspecifiedWinsWhenNotFarther ==
    Called /\ step_type_context = TypeCONTEXT =>
        \A ru \in Chain :
            \A l \in ChainDefinitions, u \in registry[ru] :
                /\ LiberalAction(l)
                /\ UnspecifiedMatch(u)
                /\ \A rl \in Chain : l \in registry[rl] => (ru = rl \/ ru \in NearerThan(rl))
                =>
                /\ outcome = "returned"
                /\ returned # l
                /\ (/\ NothingNearer(ru)
                    /\ \A d \in registry[ru] : ~Strict(d)
                    /\ \A d \in registry[ru] : UnspecifiedMatch(d) => d = u)
                   => returned = u

\* the UNSPECIFIED Definition of the nearest Registry is returned while the parent
\* holds a liberal ACTION Definition that matches
C5_Witness ==
    /\ outcome = "returned"
    /\ step_type_context = TypeCONTEXT
    /\ returned \in registry[step_registry]
    /\ UnspecifiedMatch(returned)
    /\ parent[step_registry] # NoRegistry
    /\ \E l \in registry[parent[step_registry]] : LiberalAction(l)

\* ------------------------------------------------------------------ C6
\* C6: when the Registry the walk has arrived at holds no strict and no unspecified
\* match, the Definitions held there that are liberal, match the text and are declared
\* for another category than the active context form the candidate set, and the
\* returned Definition is one of them.
C6_LiberalSelection ==
    Called =>
        \A r \in Chain :
            LET candidates == {d \in registry[r] : /\ d.type_ # step_type_context
                                                     /\ Matches(d)
                                                     /\ EffectivelyLiberal(d)}
            IN /\ NothingNearer(r)
               /\ \A d \in registry[r] : ~Strict(d) /\ ~Unspecified(d)
               /\ candidates # {}
               =>
               /\ outcome = "returned"
               /\ step_definitions = candidates
               /\ returned \in candidates

\* scenario 1: the only Definition is (ACTION, "foo", liberal=True); the step "foo"
\* under context CONTEXT resolves to it
C6_Witness ==
    /\ outcome = "returned"
    /\ AllDefinitions = {returned}
    /\ returned.type_ = TypeACTION
    /\ returned.parser = "foo"
    /\ returned.liberal = True
    /\ step.text = "foo"
    /\ step_type_context = TypeCONTEXT
    /\ option_liberal_steps = True

\* ------------------------------------------------------------------ C7
\* the effective liberal value, case by case
ExpectedLiberal(flag, commandLine, ini) ==
    CASE flag = True -> TRUE
      [] flag = False -> FALSE
      [] flag = None /\ commandLine = True -> TRUE
      [] flag = None /\ commandLine = False -> FALSE
      [] flag = None /\ commandLine = None -> ini = True

\* C7: for a Definition that matches the text, is declared for another category than
\* the context and does not satisfy the unspecified tier, the liberal tier holds exactly
\* when the Definition's flag says so, else the command-line toggle, else the ini option.
C7_EffectiveLiberal ==
    Called =>
        \A d \in ChainDefinitions :
            d.type_ # step_type_context /\ Matches(d) /\ ~Unspecified(d) =>
                (Liberal(d) <=> ExpectedLiberal(d.liberal, option_liberal_steps, ini_liberal_steps))

\* a Definition flag of false wins over a global true: the step is not resolved
C7_Witness ==
    /\ outcome = "MatchNotFoundError"
    /\ option_liberal_steps = True
    /\ ini_liberal_steps = True
    /\ \E d \in ChainDefinitions :
           /\ d.liberal = False
           /\ d.type_ # step_type_context
           /\ Matches(d)

\* ------------------------------------------------------------------ C8
\* C8 as stated: a Definition registered with liberal=False is never returned for a
\* step whose active context differs from its declared category.
C8_NonLiberalNeverMismatched ==
    outcome = "returned" /\ returned.liberal = False => returned.type_ = step_type_context

\* C8 amended: unless the active context or the declared category is UNSPECIFIED, a
\* Definition registered with liberal=False is not even a candidate for a step whose
\* active context differs from its declared category.
C8_NonLiberalNeverMismatchedUnlessUnspecified ==
    Called =>
        \A d \in ChainDefinitions :
            /\ d.liberal = False
            /\ d.type_ # step_type_context
            /\ step_type_context # TypeUNSPECIFIED
            /\ d.type_ # TypeUNSPECIFIED
            => d \notin step_definitions /\ returned # d

\* with liberal matching switched on globally, a liberal=False Definition that matches
\* the text is passed over and a Definition of the same Registry that defers to the
\* configuration is returned
C8_Witness ==
    /\ outcome = "returned"
    /\ returned.liberal = None
    /\ returned.type_ # step_type_context
    /\ step_type_context # TypeUNSPECIFIED
    /\ \E r \in Chain :
           /\ returned \in registry[r]
           /\ \E d \in registry[r] :
                  /\ d.liberal = False
                  /\ d.type_ # step_type_context
                  /\ Matches(d)

\* ------------------------------------------------------------------ C9
\* built by step(parserlike) with no liberal argument
FromStepWithoutLiberal(d) == d.type_ = StepDecoratorType(None) /\ d.liberal = None

DefaultConfiguration == option_liberal_steps = None /\ ini_liberal_steps = False

\* C9: under the default configuration, when the only Definition of the chain whose
\* pattern matches the text was built by step() with no liberal argument, the step
\* resolves to it under every active context.
C9_StepUsableWithAnyKeyword ==
    Called /\ DefaultConfiguration =>
        \A d \in ChainDefinitions :
            /\ FromStepWithoutLiberal(d)
            /\ Matches(d)
            /\ \A e \in ChainDefinitions : Matches(e) => e = d
            => outcome = "returned" /\ returned = d

\* ------------------------------------------------------------------ C10
\* C10: a Definition built by step() with no liberal argument satisfies the unspecified
\* tier under every active context whenever its pattern matches the text.
C10_StepSatisfiesUnspecifiedTier ==
    Called =>
        \A d \in ChainDefinitions :
            FromStepWithoutLiberal(d) /\ Matches(d) => Unspecified(d)

\* ------------------------------------------------------------------ C11
\* a Definition built by step with the liberal argument given as True or as False
FromStepWithLiberal(d) == d.liberal \in Bool /\ d.type_ = StepDecoratorType(d.liberal)

\* C11: a Definition registered through step with an explicit liberal flag does not
\* satisfy the UNSPECIFIED tier under a context other than UNSPECIFIED, and it is
\* returned for a context different from its declared type only through the liberal
\* tier and only when its flag is true.
C11_ExplicitFlagUsesLiberalTier ==
    Called =>
        \A d \in ChainDefinitions :
            FromStepWithLiberal(d) =>
                /\ step_type_context # TypeUNSPECIFIED => ~Unspecified(d)
                /\ (outcome = "returned" /\ returned = d /\ d.type_ # step_type_context)
                       => Liberal(d) /\ d.liberal = True

\* ------------------------------------------------------------------ C12
\* C12 as stated: a Registry never holds two structurally identical Definitions.
C12_StructuralDedup ==
    \A s \in Scopes : \A d, e \in registry[s] : SameAttributes(d, e) => d = e

\* C12 amended: every application of a decorator leaves one more stored Definition,
\* structurally identical to an earlier one or not; registering the same Definition
\* object again adds none, and every Definition noted on a handler stays stored.
C12_OneEntryPerBuiltDefinition ==
    /\ Cardinality(AllDefinitions) = decorations
    /\ \A f \in AllHandlers : pytest_bdd_step_definitions[f] \subseteq AllDefinitions
    /\ built.step_definition # NoDefinition => built.step_definition \in registry[built.scope]

\* one Registry holds two structurally identical Definitions, and one of them is also
\* held by the other Registry
C12_Witness ==
    \E s \in Scopes : \E d, e \in registry[s] :
        /\ SameAttributes(d, e)
        /\ d # e
        /\ \E r \in Scopes \ {s} : d \in registry[r]

\* ------------------------------------------------------------------ C13
\* r is the winning Registry: the nearest one of the chain holding a match of any tier
Winning(r) == r \in Chain /\ (\E d \in registry[r] : AnyTier(d)) /\ NothingNearer(r)

\* the candidate set: the matches of the winning tier within Registry r
Candidates(r) ==
    LET strict == {d \in registry[r] : Strict(d)}
        unspecified == {d \in registry[r] : Unspecified(d)}
        liberal == {d \in registry[r] : Liberal(d)}
    IN IF strict # {} THEN strict ELSE IF unspecified # {} THEN unspecified ELSE liberal

\* C13: with two or more candidates the call returns one of them and warns, without
\* failing; with exactly one candidate it returns that one and does not warn.
C13_AmbiguityWarnsAndReturnsCandidate ==
    Called =>
        \A r \in Chain :
            Winning(r) =>
                /\ Cardinality(Candidates(r)) >= 2 =>
                       outcome = "returned" /\ warned /\ returned \in Candidates(r)
                /\ Cardinality(Candidates(r)) = 1 =>
                       outcome = "returned" /\ ~warned /\ Candidates(r) = {returned}

\* two Definitions of the winning Registry tie and one of them is returned with a warning
C13_Witness ==
    /\ outcome = "returned"
    /\ warned
    /\ \E r \in Chain : Winning(r) /\ Cardinality(Candidates(r)) = 2 /\ returned \in Candidates(r)

\* ------------------------------------------------------------------ C14
\* C14: a call ends in exactly one of two ways: it returns a Definition that is held
\* in a Registry of the chain it was given and whose pattern matches the step text, or
\* it raises the match-not-found error and returns nothing.
C14_ReturnedHeldInChainAndMatching ==
    Called =>
        \/ /\ outcome = "returned"
           /\ \E r \in Chain : returned \in registry[r]
           /\ Matches(returned)
        \/ /\ outcome = "MatchNotFoundError"
           /\ returned = NoDefinition

\* a Definition is returned while a Registry outside the chain holds a Definition, held
\* nowhere in the chain, that satisfies a tier for the step
C14_Witness ==
    /\ outcome = "returned"
    /\ returned \in ChainDefinitions
    /\ \E d \in AllDefinitions \ ChainDefinitions : AnyTier(d)

\* ------------------------------------------------------------------ C16
\* the single fixture name, if any, followed by the fixture-name list, if any
FixturesAsGiven(b) ==
    (IF b.target_fixture # None THEN <<b.target_fixture>> ELSE <<>>)
    \o (IF b.target_fixtures # NoneList THEN b.target_fixtures ELSE <<>>)

FirstIndex(items, x) ==
    CHOOSE i \in DOMAIN items : items[i] = x /\ \A k \in 1..(i - 1) : items[k] # x

\* C16: the target fixtures of a built Definition are the given names, single one first,
\* without duplicates and in the order of their first occurrence; target_fixture 'X' with
\* target_fixtures ['Y', 'X'] gives ['X', 'Y'].
C16_FixtureMerge ==
    built.step_definition # NoDefinition =>
        LET given_ == FixturesAsGiven(built)
            merged == built.step_definition.target_fixtures
        IN /\ \A i, j \in DOMAIN merged : merged[i] = merged[j] => i = j
           /\ Range(merged) = Range(given_)
           /\ \A i, j \in DOMAIN merged :
                  i < j => FirstIndex(given_, merged[i]) < FirstIndex(given_, merged[j])
           /\ built.target_fixture # None => merged[1] = built.target_fixture
           /\ (built.target_fixture = "X" /\ built.target_fixtures = <<"Y", "X">>)
                  => merged = <<"X", "Y">>

\* the claim's example has been registered
C16_Witness ==
    /\ built.target_fixture = "X"
    /\ built.target_fixtures = <<"Y", "X">>
    /\ built.step_definition.target_fixtures = <<"X", "Y">>
    /\ built.step_definition \in registry[built.scope]

\* ------------------------------------------------------------------ C17
\* C17: a builder call raises the configuration-conflict warning once when both
\* target_fixture and target_fixtures are given and not at all otherwise; in either
\* case the Definition is built, noted on its handler and registered in its scope.
C17_ConflictWarning ==
    built.step_definition # NoDefinition =>
        /\ built.warnings =
              (IF built.target_fixture # None /\ built.target_fixtures # NoneList THEN 1 ELSE 0)
        /\ built.step_definition \in registry[built.scope]
        /\ built.step_definition \in pytest_bdd_step_definitions[built.step_definition.func]

\* a decoration with both arguments given has warned and registered its Definition
C17_Witness ==
    /\ built.target_fixture # None
    /\ built.target_fixtures # NoneList
    /\ built.warnings = 1
    /\ built.step_definition \in registry[built.scope]

\* ------------------------------------------------------------------ C18
\* C18: the mapping get_parameters returns has the parsed names and the default names
\* as its keys; a parsed name maps to its converter applied to the parsed value, or to
\* the parsed value itself when it has no converter; a default name that was not parsed
\* maps to its default, unconverted; a name both parsed and defaulted takes the parsed
\* value; when nothing was parsed the result is the defaults.
C18_GetParameters ==
    (parameters # NoneDict /\ outcome = "returned") =>
        LET parsed == IF parsed_arguments = NoneDict THEN EmptyDict ELSE parsed_arguments
            converters == returned.converters
            param_defaults == returned.param_defaults
        IN /\ DOMAIN parameters = DOMAIN parsed \cup DOMAIN param_defaults
           /\ \A arg \in DOMAIN parsed :
                  parameters[arg] = IF arg \in DOMAIN converters
                                    THEN Convert(converters[arg], parsed[arg])
                                    ELSE parsed[arg]
           /\ \A arg \in DOMAIN param_defaults \ DOMAIN parsed :
                  parameters[arg] = param_defaults[arg]
           /\ DOMAIN parsed = {} => parameters = param_defaults

\* one name is parsed, converted and defaulted with another value, a second name comes
\* from the defaults alone
C18_Witness ==
    /\ parameters # NoneDict
    /\ outcome = "returned"
    /\ parsed_arguments # NoneDict
    /\ \E arg \in DOMAIN parsed_arguments \cap DOMAIN returned.param_defaults :
           /\ arg \in DOMAIN returned.converters
           /\ returned.param_defaults[arg] # parsed_arguments[arg]
           /\ parameters[arg] = Convert(returned.converters[arg], parsed_arguments[arg])
    /\ \E arg \in DOMAIN returned.param_defaults \ DOMAIN parsed_arguments :
           parameters[arg] = returned.param_defaults[arg]

\* ------------------------------------------------------------------ C19
\* C19: the Definitions noted on a handler all reference it and are all stored, one per
\* decorator applied to it, the latest in the Registry of the decorating scope, where
\* the handler itself stays bound; and a step that satisfies a tier for a Definition of
\* the handler in the nearest Registry, no Definition of another handler there doing so,
\* resolves to a Definition of that handler whose pattern matches the step.
C19_Stacking ==
    \A f \in AllHandlers :
        /\ \A d \in pytest_bdd_step_definitions[f] : d.func = f /\ d \in AllDefinitions
        /\ (\A g \in AllHandlers \ {f} : pytest_bdd_step_definitions[g] = {})
               => Cardinality(pytest_bdd_step_definitions[f]) = decorations
        /\ (built.step_definition # NoDefinition /\ built.step_definition.func = f)
               => /\ built.step_definition \in registry[built.scope]
                  /\ f \in caller_locals[built.scope]
        /\ (/\ Called
            /\ step_registry # NoRegistry
            /\ \E d \in registry[step_registry] : d.func = f /\ AnyTier(d)
            /\ \A e \in registry[step_registry] : AnyTier(e) => e.func = f)
               => /\ outcome = "returned"
                  /\ returned.func = f
                  /\ returned \in registry[step_registry]
                  /\ Matches(returned)

\* one handler carries two Definitions with different patterns, both in the nearest
\* Registry, and a step resolved to one of them by its pattern
C19_Witness ==
    /\ outcome = "returned"
    /\ \E f \in AliasHandlers :
           \E d, e \in pytest_bdd_step_definitions[f] \cap registry[step_registry] :
               /\ d.parser # e.parser
               /\ d.type_ = e.type_
               /\ returned = d
               /\ d.parser = step.text

\* ------------------------------------------------------------------ C20
\* the Registries that hold Definition d, reg being the Registries' contents
Holders(reg, d) == {s \in Scopes : d \in reg[s]}

\* C20 as stated: every Definition is held by exactly one Registry.
C20_SingleOwnership ==
    \A d \in AllDefinitions : Cardinality(Holders(registry, d)) = 1

\* C20 amended: a decoration leaves the Definition it builds in exactly one Registry,
\* that of the decorating scope, and changes the holders of no other Definition; every
\* other step builds no Definition and takes none out of a Registry, bulk registration
\* only adding Registries that hold Definitions already built.
C20_HeldByDecoratingScopeThenShared ==
    [][/\ decorations' = decorations + 1 =>
            /\ built'.step_definition \notin AllDefinitions
            /\ Holders(registry', built'.step_definition) = {built'.scope}
            /\ \A d \in AllDefinitions : Holders(registry', d) = Holders(registry, d)
       /\ decorations' = decorations =>
            /\ UNION {registry'[s] : s \in Scopes} = AllDefinitions
            /\ \A d \in AllDefinitions : Holders(registry, d) \subseteq Holders(registry', d)]_vars

\* bulk registration has left one Definition in two Registries
C20_Witness ==
    \E d \in AllDefinitions :
        /\ Cardinality(Holders(registry, d)) = 2
        /\ decorations = 1

\* ------------------------------------------------------------------ C21
\* what one Matcher, run on its own over the Registries, holds after the steps h, the
\* last of them having the text of step s: the context of C1 and an outcome drawn from
\* the matches under that context
AloneContext(h) == IF h = <<>> THEN None ELSE LastExplicit(h)

AloneOutcome(h, s, result, definition) ==
    \/ h = <<>> /\ result = "none" /\ definition = NoDefinition
    \/ /\ h # <<>>
       /\ LET found == find_step_definition_matches(step_registry, LastExplicit(h), s.text)
          IN \/ result = "returned" /\ definition \in found
             \/ result = "MatchNotFoundError" /\ definition = NoDefinition /\ found = {}

\* C21: with the steps of two scenarios interleaved in any order, the context of each
\* Matcher and the Definition it returned are those of that Matcher run alone on its
\* own steps; a fresh Matcher has no context.
C21_MatcherIsolation ==
    /\ step_type_context = AloneContext(history)
    /\ AloneOutcome(history, step, outcome, returned)
    /\ other_matcher.step_type_context = AloneContext(other_matcher.history)
    /\ AloneOutcome(other_matcher.history, other_matcher.step, other_matcher.outcome,
                    other_matcher.returned)

\* the second Matcher has inherited OUTCOME for a continuation step while the first
\* one, which has handled its steps in between, holds ACTION
C21_Witness ==
    /\ other_matcher.history = <<TypeOUTCOME, TypeCONJUNCTION>>
    /\ other_matcher.step_type_context = TypeOUTCOME
    /\ history = <<TypeACTION, TypeCONJUNCTION>>
    /\ step_type_context = TypeACTION
    /\ outcome = "returned"
    /\ other_matcher.outcome = "MatchNotFoundError"

\* ------------------------------------------------------------------ C22
\* the Registries whose definition set a step has changed
Changed == {r \in Scopes : registry'[r] # registry[r]}

\* the Registries bound in the scopes broader than s: those the Registry of s is wired
\* to, directly or over a chain, once its fixture is resolved
Ancestors(s) == {bound[b] : b \in {c \in Scopes : c > s}} \ {NoRegistry, bound'[s]}

\* C22: a decoration in a scope adds to the definition set of the Registry bound in that
\* scope and changes nothing else: the definition set of every Registry of a broader
\* scope and every parent link stay as they were; a bulk registration changes one
\* Registry, bound in the calling scope, and no parent link; a Matcher invocation
\* changes neither a definition set nor a parent link.
C22_RegistryNeverMutatesParent ==
    [][/\ decorations' # decorations =>
           /\ Changed \subseteq {bound'[built'.scope]}
           /\ built'.step_definition \in registry'[bound'[built'.scope]]
           /\ \A a \in Ancestors(built'.scope) : registry'[a] = registry[a]
           /\ parent' = parent
       /\ (registry' # registry /\ decorations' = decorations) =>
           /\ \E s \in Scopes : /\ Changed = {bound'[s]}
                                /\ \A a \in Ancestors(s) : registry'[a] = registry[a]
           /\ parent' = parent
       /\ Len(history') > Len(history) => (registry' = registry /\ parent' = parent)]_vars

\* a step was resolved over a chain of two Registries filled by registrations made in
\* the two scopes, the Definitions of the narrower one not in the broader one
C22_Witness ==
    /\ outcome = "returned"
    /\ bound[1] = 1 /\ bound[2] = 2
    /\ parent[1] = 2
    /\ registry[1] # {} /\ registry[2] # {}
    /\ registry[1] \cap registry[2] = {}

\* ------------------------------------------------------------------ C23
\* the matches of a step looked up over the scopes from s outwards, read from the
\* bindings and the definition sets alone
RECURSIVE FindFromScope(_, _, _)
FindFromScope(s, context, text) ==
    IF s > NumScopes THEN {}
    ELSE IF bound[s] = NoRegistry THEN FindFromScope(s + 1, context, text)
    ELSE LET tier == FirstTier(registry[bound[s]], context, text)
         IN IF tier # 0
            THEN TierMatches(registry[bound[s]], tier, context, text)
            ELSE FindFromScope(s + 1, context, text)

\* the parent links the fixtures of the test's scope give to Registries none of which
\* has been resolved before
WiredAfresh == Wired(NumScopes, test_scope, [r \in Scopes |-> NoRegistry])

\* C23 (as stated): once a scenario has started, no step changes the definition set or
\* the parent link of any Registry.
C23_NoRegistryChangesAfterStart ==
    [][phase = "run" => (registry' = registry /\ parent' = parent)]_vars

\* C23 (amended): once a scenario has started, no definition set and no binding
\* changes; a Matcher invocation changes no parent link; resolving the step_registry
\* fixtures for a scenario assigns parent links, and only those of the Registries bound
\* in the scopes from the test's scope outwards, each to the Registry of the next
\* broader scope; the links of the chain in effect are those the bindings alone
\* determine, whatever scenarios ran before, and the candidates of a step whose lookup
\* comes to an end are those of the first scope outwards whose Registry holds a match,
\* so they are the same in every scenario of the same scope.
C23_DefinitionSetsFrozenAfterStart ==
    /\ [](phase = "run" => \A r \in Chain : parent[r] = WiredAfresh[r])
    /\ []((Called /\ outcome # "RecursionError") =>
              step_definitions = FindFromScope(test_scope, step_type_context, step.text))
    /\ [][/\ phase = "run" => (registry' = registry /\ bound' = bound)
          /\ Len(history') > Len(history) => parent' = parent
          /\ \A r \in Scopes :
                 parent'[r] # parent[r] =>
                     \E s \in Scopes : /\ s >= test_scope'
                                        /\ bound[s] = r
                                        /\ parent'[r] = NearestBound(s + 1)]_vars

\* a scenario of the narrower scope runs after one of the broader scope has run: its
\* Registry is wired to the broader one and the step resolves to a Definition held there
C23_Witness ==
    /\ outcome = "returned"
    /\ test_scope = 1
    /\ bound[1] = 1 /\ bound[2] = 2
    /\ parent[1] = 2
    /\ returned \in registry[2] \ registry[1]

\* ------------------------------------------------------------------ C24
\* C24: a Registry's parent link is unset until its fixture is first resolved, a
\* resolution sets it to the Registry of the next broader scope, and once set it is
\* never assigned another value.
C24_WiredOnFirstResolutionOnly ==
    /\ [](phase = "collect" => \A r \in Scopes : parent[r] = NoRegistry)
    /\ [][\A r \in Scopes :
              /\ parent[r] # NoRegistry => parent'[r] = parent[r]
              /\ parent'[r] # parent[r] =>
                     \E s \in Scopes : /\ s >= test_scope'
                                        /\ bound[s] = r
                                        /\ parent'[r] = NearestBound(s + 1)]_vars

\* ------------------------------------------------------------------ C25
\* the Registries bound in some scope
BoundRegistries == {bound[s] : s \in Scopes} \ {NoRegistry}

\* C25: a decoration in a scope whose namespace has no step_registry builds one
\* Registry, bound in that scope, bound nowhere before and holding the new Definition
\* only; a decoration in a scope that has one adds the new Definition to that Registry
\* and leaves the binding as it is; no other binding and no other Registry changes.
\* The Registries hold, between them, one Definition per decoration made.
C25_FindOrCreate ==
    /\ [](Cardinality(UNION {registry[r] : r \in Scopes}) = decorations)
    /\ [][decorations' # decorations =>
            LET s == built'.scope
                d == built'.step_definition
            IN /\ d \notin UNION {registry[r] : r \in Scopes}
               /\ \A q \in Scopes \ {s} : bound'[q] = bound[q]
               /\ \A r \in Scopes \ {bound'[s]} : registry'[r] = registry[r]
               /\ IF bound[s] = NoRegistry
                  THEN /\ bound'[s] \notin BoundRegistries \cup {NoRegistry}
                       /\ registry'[bound'[s]] = {d}
                  ELSE /\ bound'[s] = bound[s]
                       /\ registry'[bound[s]] = registry[bound[s]] \cup {d}]_vars

\* two decorations were made in one scope, the only one with a step_registry: its
\* Registry holds the two Definitions
C25_Witness ==
    /\ decorations = 2
    /\ bound[1] = 1 /\ bound[2] = NoRegistry
    /\ Cardinality(registry[1]) = 2

\* ------------------------------------------------------------------ C26
\* what a resolution of the current step started at Registry r gives: the candidates of
\* r under the Matcher's context if r has any, else what one started at r's parent gives
RECURSIVE StartedAt(_)
StartedAt(r) ==
    IF r = NoRegistry THEN {}
    ELSE IF Candidates(r) # {} THEN Candidates(r)
    ELSE StartedAt(parent[r])

\* C26: when no Registry nearer than a Registry of the chain holds a match of any
\* tier, the candidates found are those a resolution started at that Registry gives
\* under the same context: its strict matches, else its unspecified ones, else its
\* liberal ones, else those of its parent in turn.
C26_IndependentEscalation ==
    Called =>
        \A r \in Chain : NothingNearer(r) => step_definitions = StartedAt(r)

\* the nearest Registry holds Definitions but no match; its parent holds no strict and
\* no unspecified match, and the liberal match it holds is returned
C26_Witness ==
    /\ outcome = "returned"
    /\ registry[step_registry] # {}
    /\ \A d \in registry[step_registry] : ~AnyTier(d)
    /\ parent[step_registry] # NoRegistry
    /\ returned \in registry[parent[step_registry]]
    /\ Liberal(returned) /\ ~Strict(returned) /\ ~Unspecified(returned)

\* ------------------------------------------------------------------ C27
\* C27: over the chains built by registrations in nested scopes, which are acyclic,
\* a Matcher invocation that has entered the lookup comes to its end, with a Definition
\* returned or with MatchNotFoundError; the lookup is called on Registries of the chain
\* only and on none of them twice.
C27_ResolutionTerminates ==
    /\ [](/\ \A i, j \in DOMAIN resolution.visits :
                 i # j => resolution.visits[i] # resolution.visits[j]
          /\ (resolution.resolving \/ Called) => Range(resolution.visits) \subseteq Chain)
    /\ (resolution.resolving ~>
            (~resolution.resolving /\ outcome \in {"returned", "MatchNotFoundError"}))

\* the lookup went over a chain of two Registries, each holding Definitions and none a
\* match, and ended with MatchNotFoundError
C27_Witness ==
    /\ ~resolution.resolving
    /\ outcome = "MatchNotFoundError"
    /\ Len(resolution.visits) = 2
    /\ \A r \in Range(resolution.visits) : registry[r] # {}

\* ------------------------------------------------------------------ C28
\* C28: the Matcher's context is never CONJUNCTION, before or after any call and
\* whatever the call's outcome; after CONJUNCTION steps only it is UNKNOWN; the
\* candidates of a call are the matches under the stored, normalized context.
C28_ContextNeverConjunction ==
    /\ step_type_context # TypeCONJUNCTION
    /\ (history # <<>> /\ \A i \in DOMAIN history : history[i] = TypeCONJUNCTION) =>
           step_type_context = TypeUNKNOWN
    /\ Called =>
           step_definitions = find_step_definition_matches(step_registry, step_type_context, step.text)

\* a CONJUNCTION step is the first of its scenario: the context is UNKNOWN and a
\* Definition of category UNKNOWN is returned as a strict match
C28_Witness ==
    /\ history = <<TypeCONJUNCTION>>
    /\ step_type_context = TypeUNKNOWN
    /\ outcome = "returned"
    /\ returned.type_ = TypeUNKNOWN
    /\ Strict(returned)

\* ------------------------------------------------------------------ C29
Continuation == {TypeCONJUNCTION, TypeUNKNOWN}

\* C29: after a call that raised MatchNotFoundError for a step of an explicit
\* category the context is that category; a continuation step handled next runs
\* under the context the failed call left.
C29_FailureKeepsContext ==
    /\ []((outcome = "MatchNotFoundError" /\ step.type \notin Continuation) =>
              step_type_context = step.type)
    /\ [][(/\ outcome = "MatchNotFoundError"
           /\ Len(history') > Len(history)
           /\ step'.type \in Continuation) => step_type_context' = step_type_context]_vars

\* "Then bar" has no Definition and failed; the "And foo" after it runs under OUTCOME
C29_Witness ==
    /\ previous_step = [type |-> TypeOUTCOME, text |-> "bar"]
    /\ step = [type |-> TypeCONJUNCTION, text |-> "foo"]
    /\ step_type_context = TypeOUTCOME
    /\ Called

\* ------------------------------------------------------------------ C30
\* C30: whatever feature, pickle and previous_step a call is given, the new context is
\* the one derived from the Matcher's stored context and the step's category, the
\* candidates are the matches of the step's text under it, and the outcome is a
\* candidate returned or, without candidates, MatchNotFoundError.
C30_ArgumentsDoNotInterfere ==
    [][Len(history') > Len(history) =>
          LET context == NextContext(step_type_context, step'.type)
              found == find_step_definition_matches(step_registry, context, step'.text)
          IN /\ step_type_context' = context
             /\ step_definitions' = found
             /\ found # {} => (outcome' = "returned" /\ returned' \in found)
             /\ found = {} => (outcome' = "MatchNotFoundError" /\ returned' = NoDefinition)]_vars

\* the call for an "And" step was told that the previous step was a "Then" step, of
\* another feature and scenario; the Matcher had handled a "When" step and its context
\* stays ACTION
C30_Witness ==
    /\ history = <<TypeACTION, TypeCONJUNCTION>>
    /\ previous_step # NoStep
    /\ previous_step.type = TypeOUTCOME
    /\ feature = "other feature"
    /\ pickle = "other scenario"
    /\ step_type_context = TypeACTION
    /\ outcome = "returned"

\* ------------------------------------------------------------------ C31
\* the Definitions ds are all held in Registry r and all satisfy one tier, the first
\* tier of r that has a match
OneTierOf(ds, r) ==
    /\ ds \subseteq registry[r]
    /\ \/ \A d \in ds : Strict(d)
       \/ /\ \A d \in ds : Unspecified(d)
          /\ \A d \in registry[r] : ~Strict(d)
       \/ /\ \A d \in ds : Liberal(d)
          /\ \A d \in registry[r] : ~Strict(d) /\ ~Unspecified(d)

\* C31: the alternatives of a call all lie in one Registry of the chain, the nearest
\* one holding a match, and in one tier, the first with a match there; a warning is
\* raised only when that tier of that Registry has two or more matches, so matches
\* spread over several tiers or several Registries raise none.
C31_AmbiguityWithinWinningTier ==
    Called =>
        /\ step_definitions # {} =>
               \E r \in Chain : Winning(r) /\ OneTierOf(step_definitions, r)
        /\ warned =>
               \E r \in Chain : /\ Winning(r)
                                /\ Cardinality(Candidates(r)) >= 2
                                /\ step_definitions = Candidates(r)
        /\ (\A r \in Chain : Winning(r) => Cardinality(Candidates(r)) = 1) => ~warned

\* the nearest Registry holds a strict match and a liberal match of the same text, its
\* parent a further match: one alternative, no warning
C31_Witness ==
    /\ outcome = "returned"
    /\ ~warned
    /\ step_definitions = {returned}
    /\ Strict(returned)
    /\ \E d \in registry[step_registry] : Liberal(d)
    /\ parent[step_registry] # NoRegistry
    /\ \E d \in registry[parent[step_registry]] : AnyTier(d)

\* ------------------------------------------------------------------ C32
\* the step is a step.from_locals call
FromLocalsCalled == registered' # registered /\ registered'.op = "from_locals"

\* the Definitions attached to the decorated handlers of the namespace of scope s whose
\* name or object is in S, all of them when S is None
Attached(s, S) ==
    UNION {pytest_bdd_step_definitions[f] : f \in {g \in caller_locals[s] : S = NoneSteps \/ g \in S}}

\* C32: a step.from_locals call whose Definitions are all held already by the
\* Registry of the calling scope changes no Registry and no binding; and whatever a
\* call registers, a Registry holds only Definition objects built by decorations.
C32_ReRegistrationIdempotent ==
    /\ [](\A r \in Scopes : registry[r] \subseteq UNION {pytest_bdd_step_definitions[f] : f \in AllHandlers})
    /\ [][FromLocalsCalled =>
            LET s == registered'.scope
            IN (bound[s] # NoRegistry /\ Attached(s, registered'.steps) \subseteq registry[bound[s]]) =>
                   (registry' = registry /\ bound' = bound /\ parent' = parent)]_vars

\* step.from_locals() was called in the one scope with decorations: its Registry holds
\* the two Definitions built there, each once
C32_Witness ==
    /\ registered.op = "from_locals"
    /\ registered.steps = NoneSteps
    /\ decorations = 2
    /\ bound[registered.scope] = registered.scope
    /\ Cardinality(registry[registered.scope]) = 2
    /\ \A r \in Scopes \ {registered.scope} : registry[r] = {}

\* ------------------------------------------------------------------ C33
\* C33: after step.from_locals(steps=S) in a scope, the Registry bound there holds what
\* it held before and every Definition attached to the decorated handlers of the
\* namespace that S selects, wherever each was built; with nothing selected no Registry
\* and no binding changes; every other Registry, the handlers' own sets and the
\* namespaces are as before.
C33_BulkRegistrationFromLocals ==
    [][FromLocalsCalled =>
          LET s == registered'.scope
              selected == Attached(s, registered'.steps)
          IN /\ selected # {} =>
                    /\ bound'[s] # NoRegistry
                    /\ registry'[bound'[s]] = registry[bound'[s]] \cup selected
                    /\ \A q \in Scopes \ {bound'[s]} : registry'[q] = registry[q]
             /\ selected = {} => (registry' = registry /\ bound' = bound)
             /\ pytest_bdd_step_definitions' = pytest_bdd_step_definitions
             /\ caller_locals' = caller_locals]_vars

\* the handler was decorated in both scopes; step.from_locals(steps={handler}) in
\* scope 1 has put the Definition built in scope 2 into the Registry of scope 1 and
\* left it in that of scope 2
C33_Witness ==
    /\ registered.op = "from_locals"
    /\ registered.scope = 1
    /\ registered.steps = {"foo"}
    /\ bound[1] = 1 /\ bound[2] = 2
    /\ Cardinality(registry[1]) = 2
    /\ Cardinality(registry[2]) = 1
    /\ registry[2] \subseteq registry[1]

\* ------------------------------------------------------------------ C34
\* C34: for every Definition built, under the context and text of the step handled and
\* the configuration in force, a Definition satisfying the liberal matcher satisfies
\* neither the strict nor the unspecified one; and in a Registry with no strict and no
\* unspecified match the liberal matcher holds of a Definition exactly when the
\* Definition is effectively liberal and its pattern matches the text.
C34_LiberalTierDisjoint ==
    Called =>
        /\ \A d \in AllDefinitions : Liberal(d) => (~Strict(d) /\ ~Unspecified(d))
        /\ \A r \in Scopes :
               (\A e \in registry[r] : ~Strict(e) /\ ~Unspecified(e)) =>
                   \A d \in registry[r] : Liberal(d) <=> (EffectivelyLiberal(d) /\ Matches(d))

\* a liberal match is returned from a Registry with no strict and no unspecified match,
\* while another Definition, effectively liberal and matching the text, is no liberal
\* match because it satisfies an earlier tier
C34_Witness ==
    /\ outcome = "returned"
    /\ Liberal(returned)
    /\ \E e \in AllDefinitions : EffectivelyLiberal(e) /\ Matches(e) /\ ~Liberal(e)

====
